---- MODULE Spec2Model ----
(***************************************************************************)
(* Model of the pdfcpu object parser (package model, parse.go).            *)
(*                                                                         *)
(* A Go string is a sequence of one-character strings; the unprintable     *)
(* runes are named "NUL", "VT", "NEL" and "NBSP".  Indices returned by the *)
(* scanners are Go's 0-based indices.  A parser that takes `line *string`  *)
(* returns a record [obj, err, line, hang]: the returned object (Null for  *)
(* Go's nil), the error ("" for nil), the value of *line after the call,   *)
(* and hang = TRUE when the call never returns.                            *)
(***************************************************************************)
EXTENDS Integers, Sequences, FiniteSets, TLC

(***************************************************************************)
(* Go slices and string helpers                                            *)
(***************************************************************************)
\* s[i:]
From(s, i) == SubSeq(s, i + 1, Len(s))

\* s[:i]
Upto(s, i) == SubSeq(s, 1, i)

\* s[i]
At(s, i) == s[i + 1]

\* strings.HasPrefix(s, p)
HasPrefix(s, p) == Len(s) >= Len(p) /\ SubSeq(s, 1, Len(p)) = p

\* strings.Index(s, c) for a one-byte c: 0-based index, -1 when absent
Index(s, c) ==
    IF \E k \in 1..Len(s) : s[k] = c
    THEN (CHOOSE k \in 1..Len(s) : s[k] = c /\ \A m \in 1..(k - 1) : s[m] # c) - 1
    ELSE -1

\* strings.Index(s, sub): 0-based index of the first occurrence, -1 when absent
IndexStr(s, sub) ==
    LET hit(k) == SubSeq(s, k, k + Len(sub) - 1) = sub
        Pos == {k \in 1..(Len(s) - Len(sub) + 1) : hit(k)}
    IN  IF Pos = {} THEN -1
        ELSE (CHOOSE k \in Pos : \A m \in Pos : k <= m) - 1

\* unicode.IsSpace
IsSpace(c) == c \in {"\t", "\n", "VT", "\f", "\r", " ", "NEL", "NBSP"}

\* strings.TrimLeftFunc(s, f)
TrimLeftFunc(s, f(_)) ==
    IF \A k \in 1..Len(s) : f(s[k]) THEN <<>>
    ELSE From(s, (CHOOSE k \in 1..Len(s) : ~f(s[k]) /\ \A m \in 1..(k - 1) : f(s[m])) - 1)

\* strings.TrimRightFunc(s, f)
TrimRightFunc(s, f(_)) ==
    IF \A k \in 1..Len(s) : f(s[k]) THEN <<>>
    ELSE Upto(s, CHOOSE k \in 1..Len(s) : ~f(s[k]) /\ \A m \in (k + 1)..Len(s) : f(s[m]))

\* strings.TrimSpace(s)
TrimSpace(s) == TrimRightFunc(TrimLeftFunc(s, IsSpace), IsSpace)

Lower == <<"a", "b", "c", "d", "e", "f", "g", "h", "i", "j", "k", "l", "m",
           "n", "o", "p", "q", "r", "s", "t", "u", "v", "w", "x", "y", "z">>

Upper == <<"A", "B", "C", "D", "E", "F", "G", "H", "I", "J", "K", "L", "M",
           "N", "O", "P", "Q", "R", "S", "T", "U", "V", "W", "X", "Y", "Z">>

\* unicode.ToUpper on one rune
ToUpperRune(c) ==
    IF \E k \in 1..26 : Lower[k] = c
    THEN Upper[CHOOSE k \in 1..26 : Lower[k] = c]
    ELSE c

\* strings.ToUpper(s)
ToUpper(s) == [k \in 1..Len(s) |-> ToUpperRune(s[k])]

(***************************************************************************)
(* Errors                                                                  *)
(***************************************************************************)
errArrayCorrupt == "pdfcpu: parse: corrupt array"
errArrayNotTerminated == "pdfcpu: parse: unterminated array"
errDictionaryCorrupt == "pdfcpu: parse: corrupt dictionary"
errDictionaryDuplicateKey == "pdfcpu: parse: duplicate key"
errDictionaryNotTerminated == "pdfcpu: parse: unterminated dictionary"
errHexLiteralCorrupt == "pdfcpu: parse: corrupt hex literal"
errHexLiteralNotTerminated == "pdfcpu: parse: hex literal not terminated"
errNameObjectCorrupt == "pdfcpu: parse: corrupt name object"
errNoArray == "pdfcpu: parse: no array"
errNoDictionary == "pdfcpu: parse: no dictionary"
errStringLiteralCorrupt == "pdfcpu: parse: corrupt string literal, possibly unbalanced parenthesis"
errBufNotAvailable == "pdfcpu: parse: no buffer available"
errXrefStreamMissingW == "pdfcpu: parse: xref stream dict missing entry W"
errXrefStreamCorruptW == "pdfcpu: parse: xref stream dict corrupt entry W: expecting array of 3 int"
errXrefStreamCorruptIndex == "pdfcpu: parse: xref stream dict corrupt entry Index"
errSizeNotAvailable == "pdfcpu: ParseXRefStreamDict: \"Size\" not available"
\* the *strconv.NumError values
errSyntax == "strconv: invalid syntax"
errRange == "strconv: value out of range"

(***************************************************************************)
(* Objects (types.Object)                                                  *)
(***************************************************************************)
Null == [t |-> "Null"]
Boolean(b) == [t |-> "Boolean", v |-> b]
Integer(i) == [t |-> "Integer", v |-> i]
Float(s) == [t |-> "Float", v |-> s]
Name(s) == [t |-> "Name", v |-> s]
StringLiteral(s) == [t |-> "StringLiteral", v |-> s]
HexLiteral(s) == [t |-> "HexLiteral", v |-> s]
Array(a) == [t |-> "Array", v |-> a]
Dict(d) == [t |-> "Dict", v |-> d]
NewIndirectRef(n, g) == [t |-> "IndirectRef", n |-> n, g |-> g]

\* the three ways a call on `line *string` ends
Ok(obj, line) == [obj |-> obj, err |-> "", line |-> line, hang |-> FALSE]
Fail(err, line) == [obj |-> Null, err |-> err, line |-> line, hang |-> FALSE]
Hang(line) == [obj |-> Null, err |-> "", line |-> line, hang |-> TRUE]

(***************************************************************************)
(* Lexeme scanners                                                         *)
(***************************************************************************)
\* the closure `whitespace` of trimLeftSpace, also the test of the scanners
whitespace(c) == IsSpace(c) \/ c = "NUL"

\* the closure `whitespaceNoEol` of trimLeftSpace
whitespaceNoEol(c) == c \in {"\t", "VT", "\f", " ", "NEL", "NBSP", "NUL"}

\* index of the first rune satisfying hit, or none
FirstIndex(s, hit(_), none) ==
    IF \E k \in 1..Len(s) : hit(s[k])
    THEN (CHOOSE k \in 1..Len(s) : hit(s[k]) /\ \A m \in 1..(k - 1) : ~hit(s[m])) - 1
    ELSE none

positionToNextWhitespace(s) ==
    LET i == FirstIndex(s, whitespace, 0)
    IN  [i |-> i, s |-> From(s, i)]

\* chars is the set of the runes of the Go string `chars`
positionToNextWhitespaceOrChar(s, chars) ==
    IF chars = {} THEN positionToNextWhitespace(s)
    ELSE LET hit(c) == c \in chars \/ whitespace(c)
             i == FirstIndex(s, hit, -1)
         IN  [i |-> i, s |-> IF i < 0 THEN s ELSE From(s, i)]

positionToNextEOL(s) ==
    LET eol(c) == c \in {"\n", "\r"}
        i == FirstIndex(s, eol, -1)
    IN  IF i < 0 THEN <<>> ELSE From(s, i)

\* the for loop of trimLeftSpace; eol is the variable `eol`
RECURSIVE trimLeftSpaceLoop(_, _, _)
trimLeftSpaceLoop(s, relaxed, eol) ==
    LET s1 == IF relaxed THEN TrimLeftFunc(s, whitespaceNoEol) ELSE s
        eol1 == eol \/ (relaxed /\ Len(s1) >= 1 /\ s1[1] \in {"\n", "\r"})
        s2 == TrimLeftFunc(s1, whitespace)
    IN  IF Len(s2) <= 1 \/ s2[1] # "%"
        THEN [s |-> s2, eol |-> eol1]
        ELSE trimLeftSpaceLoop(positionToNextEOL(s2), relaxed, eol1)

trimLeftSpace(s, relaxed) == trimLeftSpaceLoop(s, relaxed, FALSE)

\* the range loop of hexString over strings.ToUpper(s): k is the position,
\* sb the builder, i the digit counter
RECURSIVE hexStringLoop(_, _, _, _)
hexStringLoop(s, k, sb, i) ==
    IF k > Len(s)
    THEN [s |-> IF i % 2 > 0 THEN Append(sb, "0") ELSE sb, ok |-> TRUE]
    ELSE LET c == s[k]
         IN  IF c \in {" ", "\t", "\n", "\f", "\r"}
             THEN IF i % 2 > 0
                  THEN hexStringLoop(s, k + 1, Append(sb, "0"), 0)
                  ELSE hexStringLoop(s, k + 1, sb, i)
             ELSE IF c \in {"A", "B", "C", "D", "E", "F", "1", "2", "3", "4",
                            "5", "6", "7", "8", "9", "0"}
                  THEN hexStringLoop(s, k + 1, Append(sb, c), i + 1)
                  ELSE [s |-> <<>>, ok |-> FALSE]

hexString(s) ==
    IF Len(s) = 0 THEN [s |-> <<>>, ok |-> TRUE]
    ELSE hexStringLoop(ToUpper(s), 1, <<>>, 0)

\* the for loop of balancedParenthesesPrefix from index i on
RECURSIVE balancedLoop(_, _, _, _)
balancedLoop(s, i, j, escaped) ==
    IF i >= Len(s) THEN -1
    ELSE LET c == At(s, i)
         IN  IF ~escaped /\ c = "\\" THEN balancedLoop(s, i + 1, j, TRUE)
             ELSE IF escaped THEN balancedLoop(s, i + 1, j, FALSE)
             ELSE LET j1 == IF c = "(" THEN j + 1
                            ELSE IF c = ")" THEN j - 1 ELSE j
                  IN  IF j1 = 0 THEN i
                      ELSE balancedLoop(s, i + 1, j1, FALSE)

\* the scan without the escape rule
RECURSIVE balancedLoopNoEscape(_, _, _)
balancedLoopNoEscape(s, i, j) ==
    IF i >= Len(s) THEN -1
    ELSE LET c == At(s, i)
             j1 == IF c = "(" THEN j + 1 ELSE IF c = ")" THEN j - 1 ELSE j
         IN  IF j1 = 0 THEN i ELSE balancedLoopNoEscape(s, i + 1, j1)

balancedParenthesesPrefixNoEscape(s) == balancedLoopNoEscape(s, 0, 0)

balancedParenthesesPrefix(s) == balancedLoop(s, 0, 0, FALSE)

forwardParseBuf(buf, pos) == IF pos < Len(buf) THEN From(buf, pos) ELSE <<>>

delimiter(b) == b \in {"<", ">", "[", "]", "(", ")", "/"}

\* hex.DecodeString succeeds on a two-byte string
IsHexPair(s1) ==
    \A k \in 1..Len(s1) :
        s1[k] \in {"0", "1", "2", "3", "4", "5", "6", "7", "8", "9",
                   "a", "b", "c", "d", "e", "f", "A", "B", "C", "D", "E", "F"}

\* the for loop of validateNameHexSequence from index i on
RECURSIVE validateNameHexLoop(_, _)
validateNameHexLoop(s, i) ==
    IF i >= Len(s) THEN ""
    ELSE IF At(s, i) # "#" THEN validateNameHexLoop(s, i + 1)
    ELSE IF Len(s) < i + 3 THEN errNameObjectCorrupt
    ELSE IF ~IsHexPair(SubSeq(s, i + 2, i + 3)) THEN errNameObjectCorrupt
    ELSE validateNameHexLoop(s, i + 3)

validateNameHexSequence(s) == validateNameHexLoop(s, 0)

(***************************************************************************)
(* strconv                                                                 *)
(***************************************************************************)
IsDigit(c) == c \in {"0", "1", "2", "3", "4", "5", "6", "7", "8", "9"}

DigitVal(c) ==
    CASE c = "0" -> 0 [] c = "1" -> 1 [] c = "2" -> 2 [] c = "3" -> 3
      [] c = "4" -> 4 [] c = "5" -> 5 [] c = "6" -> 6 [] c = "7" -> 7
      [] c = "8" -> 8 [] c = "9" -> 9

\* a digit string without its leading zeros
StripZeros(ds) == TrimLeftFunc(ds, LAMBDA c : c = "0")

\* a > b for two digit strings without leading zeros
DigitsGT(a, b) ==
    \/ Len(a) > Len(b)
    \/ /\ Len(a) = Len(b)
       /\ \E k \in 1..Len(a) :
            /\ DigitVal(a[k]) > DigitVal(b[k])
            /\ \A m \in 1..(k - 1) : a[m] = b[m]

\* math.MaxUint64, math.MaxInt64 and -math.MinInt64 in decimal
MaxUint64Digits ==
    <<"1", "8", "4", "4", "6", "7", "4", "4", "0", "7",
      "3", "7", "0", "9", "5", "5", "1", "6", "1", "5">>

MaxInt64Digits ==
    <<"9", "2", "2", "3", "3", "7", "2", "0", "3", "6",
      "8", "5", "4", "7", "7", "5", "8", "0", "7">>

MinInt64Digits ==
    <<"9", "2", "2", "3", "3", "7", "2", "0", "3", "6",
      "8", "5", "4", "7", "7", "5", "8", "0", "8">>

\* the value of a digit string
RECURSIVE DecVal(_)
DecVal(ds) ==
    IF Len(ds) = 0 THEN 0
    ELSE 10 * DecVal(Upto(ds, Len(ds) - 1)) + DigitVal(ds[Len(ds)])

\* strconv.Atoi on a 64-bit int: the scan reports a syntax error at the first
\* byte that is no digit, unless the digits before it already overflow uint64
Atoi(s) ==
    LET neg == Len(s) > 0 /\ s[1] = "-"
        ds == IF Len(s) > 0 /\ s[1] \in {"+", "-"} THEN From(s, 1) ELSE s
        bad == FirstIndex(ds, LAMBDA c : ~IsDigit(c), Len(ds))
        over(k) == DigitsGT(StripZeros(Upto(ds, k)), MaxUint64Digits)
        n == StripZeros(ds)
    IN  IF Len(ds) = 0 THEN [v |-> 0, err |-> errSyntax]
        ELSE IF \E k \in 1..bad : over(k) THEN [v |-> 0, err |-> errRange]
        ELSE IF bad < Len(ds) THEN [v |-> 0, err |-> errSyntax]
        ELSE IF DigitsGT(n, IF neg THEN MinInt64Digits ELSE MaxInt64Digits)
             THEN [v |-> 0, err |-> errRange]
        ELSE [v |-> IF neg THEN 0 - DecVal(n) ELSE DecVal(n), err |-> ""]

isRangeError(err) == err = errRange

\* strconv.ParseFloat accepts s as a decimal: sign, digits, '.', digits, with
\* a digit on one side of the point (exponent, hexadecimal, inf and nan forms
\* need bytes that the inputs below do not contain)
IsDecimalFloat(s) ==
    LET ds == IF Len(s) > 0 /\ s[1] \in {"+", "-"} THEN From(s, 1) ELSE s
        dots == {k \in 1..Len(ds) : ds[k] = "."}
    IN  /\ \A k \in 1..Len(ds) : IsDigit(ds[k]) \/ ds[k] = "."
        /\ Cardinality(dots) <= 1
        /\ \E k \in 1..Len(ds) : IsDigit(ds[k])

\* the Float payload is the accepted text
parseFloat(s) ==
    IF IsDecimalFloat(s) THEN [obj |-> Float(s), err |-> ""]
    ELSE [obj |-> Null, err |-> errSyntax]

(***************************************************************************)
(* Primitive parsers                                                       *)
(***************************************************************************)
parseStringLiteral(line) ==
    IF Len(line) = 0 THEN Fail(errBufNotAvailable, line)
    ELSE LET l == line
             i == balancedParenthesesPrefix(l)
         IN  IF Len(l) < 2 \/ ~HasPrefix(l, <<"(">>)
             THEN Fail(errStringLiteralCorrupt, line)
             ELSE IF i < 0 THEN Fail(errStringLiteralCorrupt, line)
             ELSE Ok(StringLiteral(SubSeq(l, 2, i)), forwardParseBuf(From(l, i), 1))

parseHexLiteral(line) ==
    IF Len(line) = 0 THEN Fail(errBufNotAvailable, line)
    ELSE IF Len(line) < 2 \/ ~HasPrefix(line, <<"<">>)
         THEN Fail(errHexLiteralCorrupt, line)
    ELSE LET l == forwardParseBuf(line, 1)
             eov == Index(l, ">")
             hexStr == hexString(TrimSpace(Upto(l, eov)))
         IN  IF eov < 0 THEN Fail(errHexLiteralNotTerminated, line)
             ELSE IF ~hexStr.ok THEN Fail(errHexLiteralCorrupt, line)
             ELSE Ok(HexLiteral(hexStr.s), forwardParseBuf(From(l, eov), 1))

\* *line is assigned before the #xx sequences are validated
parseName(line) ==
    IF Len(line) = 0 THEN Fail(errBufNotAvailable, line)
    ELSE IF Len(line) < 2 \/ ~HasPrefix(line, <<"/">>)
         THEN Fail(errNameObjectCorrupt, line)
    ELSE LET l == forwardParseBuf(line, 1)
             eok == positionToNextWhitespaceOrChar(l,
                        {"/", "<", ">", "(", ")", "[", "]", "%"}).i
             line1 == IF eok < 0 THEN <<>> ELSE From(l, eok)
             l1 == IF eok < 0 THEN l ELSE Upto(l, eok)
             err == validateNameHexSequence(l1)
         IN  IF err # "" THEN Fail(err, line1)
             ELSE Ok(Name(l1), line1)

parseBooleanOrNull(l) ==
    IF HasPrefix(l, <<"n", "u", "l", "l">>)
    THEN [val |-> Null, s |-> <<"n", "u", "l", "l">>, ok |-> TRUE]
    ELSE IF HasPrefix(l, <<"t", "r", "u", "e">>)
    THEN [val |-> Boolean(TRUE), s |-> <<"t", "r", "u", "e">>, ok |-> TRUE]
    ELSE IF HasPrefix(l, <<"f", "a", "l", "s", "e">>)
    THEN [val |-> Boolean(FALSE), s |-> <<"f", "a", "l", "s", "e">>, ok |-> TRUE]
    ELSE [val |-> Null, s |-> <<>>, ok |-> FALSE]

(***************************************************************************)
(* Numeric or indirect reference                                           *)
(***************************************************************************)
noBuf(l) == Len(l) = 0

\* the index of the first byte of str from index i on that is not '0'
RECURSIVE skipZeros(_, _)
skipZeros(str, i) ==
    IF Len(str) > i /\ At(str, i) = "0" THEN skipZeros(str, i + 1) ELSE i

\* startParseNumericOrIndRef that leaves a token that ends the buffer unconsumed
startParseNumericOrIndRefNoAdvance(l) ==
    LET i1 == positionToNextWhitespaceOrChar(l,
                  {"/", "<", "(", "[", "]", ">", "%"}).i
    IN  [str |-> IF i1 > 0 THEN Upto(l, i1) ELSE l,
         l1 |-> IF i1 > 0 THEN From(l, i1) ELSE l,
         i1 |-> i1]

startParseNumericOrIndRef(l) ==
    LET i1 == positionToNextWhitespaceOrChar(l,
                  {"/", "<", "(", "[", "]", ">", "%"}).i
        l1 == IF i1 > 0 THEN From(l, i1) ELSE From(l, Len(l))
        str0 == IF i1 > 0 THEN Upto(l, i1) ELSE l
        i == skipZeros(str0, 2)
        str == IF Len(str0) > 1 /\ str0[1] = "0"
               THEN IF At(str0, 1) \in {"+", "-"} THEN From(str0, 1)
                    ELSE IF At(str0, 1) = "."
                         THEN IF Len(str0) > i /\ At(str0, i) \in {"+", "-"}
                              THEN From(str0, i)
                              ELSE str0
                         ELSE str0
               ELSE str0
    IN  [str |-> str, l1 |-> l1, i1 |-> i1]

\* parseIndRef that promotes without looking for the 'R'
parseIndRefNoR(s, l, l1, line, i, i2, rangeErr) ==
    LET g == Atoi(s)
        l2 == trimLeftSpace(From(l, i2), FALSE).s
    IN  IF g.err # "" THEN Ok(Integer(i), l1)
        ELSE IF Len(l2) = 0 THEN Ok(Integer(i), l1)
        ELSE IF rangeErr THEN Ok(Null, forwardParseBuf(l2, 1))
        ELSE Ok(NewIndirectRef(i, g.v), forwardParseBuf(l2, 1))

\* parseIndRef that reports the range error although the 'R' is there
parseIndRefRangeErr(s, l, l1, line, i, i2, rangeErr) ==
    LET g == Atoi(s)
        l2 == trimLeftSpace(From(l, i2), FALSE).s
    IN  IF g.err # "" THEN Ok(Integer(i), l1)
        ELSE IF rangeErr THEN Fail(errRange, line)
        ELSE IF Len(l2) = 0 THEN Ok(Integer(i), l1)
        ELSE IF l2[1] = "R" THEN Ok(NewIndirectRef(i, g.v), forwardParseBuf(l2, 1))
        ELSE Ok(Integer(i), l1)

\* line is the value of *line at the call; err of `return nil, err` is the
\* error of the Atoi of this function
parseIndRef(s, l, l1, line, i, i2, rangeErr) ==
    LET g == Atoi(s)
        l2 == trimLeftSpace(From(l, i2), FALSE).s
    IN  IF g.err # "" THEN Ok(Integer(i), l1)
        ELSE IF Len(l2) = 0
             THEN IF rangeErr
                  THEN [obj |-> Null, err |-> g.err, line |-> line, hang |-> FALSE]
                  ELSE Ok(Integer(i), l1)
        ELSE IF l2[1] = "R"
             THEN IF rangeErr
                  THEN Ok(Null, forwardParseBuf(l2, 1))
                  ELSE Ok(NewIndirectRef(i, g.v), forwardParseBuf(l2, 1))
        ELSE IF rangeErr
             THEN [obj |-> Null, err |-> g.err, line |-> line, hang |-> FALSE]
        ELSE Ok(Integer(i), l1)

\* lines 809-829: la is the cursor behind the first token and its whitespace,
\* i2 the end of the second token
parseNumericSecondToken(line, st, i, rangeErr, a, la, i2) ==
    IF i2 <= 0 \/ delimiter(At(la, i2))
    THEN IF rangeErr THEN Fail(a.err, line) ELSE Ok(Integer(i), st.l1)
    ELSE parseIndRef(IF i2 > 0 THEN Upto(la, i2) ELSE la,
                     la, st.l1, line, i, i2, rangeErr)

\* lines 798-809
parseNumericLookahead(line, st, i, rangeErr, a, la) ==
    IF Len(la) = 0
    THEN IF rangeErr THEN Fail(a.err, line) ELSE Ok(Integer(i), st.l1)
    ELSE parseNumericSecondToken(line, st, i, rangeErr, a, la,
             positionToNextWhitespaceOrChar(la, {"/", "<", "(", "[", "]", ">"}).i)

\* lines 779-799: "We have an Int!"; i is 0 after a range error
parseNumericInt(line, st, i, rangeErr, a) ==
    IF st.i1 <= 0 \/ delimiter(At(line, st.i1))
    THEN IF rangeErr THEN Fail(a.err, line) ELSE Ok(Integer(i), st.l1)
    ELSE parseNumericLookahead(line, st, i, rangeErr, a,
                               trimLeftSpace(From(line, st.i1), FALSE).s)

\* the float of line 772, returned with *line = l1
parseNumericFloat(st, f) ==
    [obj |-> f.obj, err |-> f.err, line |-> st.l1, hang |-> FALSE]

\* lines 764-777: a is the result of strconv.Atoi(s)
parseNumericTryInt(line, st, a) ==
    IF a.err # "" /\ ~isRangeError(a.err)
    THEN parseNumericFloat(st, parseFloat(st.str))
    ELSE parseNumericInt(line, st, IF a.err # "" THEN 0 ELSE a.v,
                         a.err # "" /\ isRangeError(a.err), a)

\* lines 757-762: st is the result of startParseNumericOrIndRef(l)
parseNumericStart(line, st) == parseNumericTryInt(line, st, Atoi(st.str))

parseNumericOrIndRef(line) ==
    IF noBuf(line) THEN Fail(errBufNotAvailable, line)
    ELSE parseNumericStart(line, startParseNumericOrIndRef(line))

(***************************************************************************)
(* types.Dict                                                              *)
(***************************************************************************)
\* types.NewDict()
NewDict == [k \in {} |-> Null]

\* Dict.Insert(k, v): the entry is written, a later write of a key replaces
\* the earlier one; ok reports that the key was not present before
Insert(d, k, v) ==
    [d |-> [x \in DOMAIN d \cup {k} |-> IF x = k THEN v ELSE d[x]],
     ok |-> k \notin DOMAIN d]

(***************************************************************************)
(* Composite parsers and the dispatcher                                    *)
(***************************************************************************)
RECURSIVE ParseObject(_)
RECURSIVE parseArrayLoop(_, _, _)
RECURSIVE processDictKeysLoop(_, _, _, _)

\* lines 346-350: l2 is the cursor behind the entry and its whitespace.  An
\* iteration that ends with the cursor it started with repeats for ever,
\* appending to a: the call does not return.
parseArrayNext(line, l, a, l2) ==
    IF Len(l2) = 0 THEN Fail(errArrayNotTerminated, line)
    ELSE IF l2 = l THEN Hang(line)
    ELSE parseArrayLoop(line, l2, a)

\* lines 333-347: r is the result of ParseObject(&l)
parseArrayEntry(line, l, a, r) ==
    IF r.hang THEN Hang(line)
    ELSE IF r.err # "" THEN Fail(r.err, line)
    ELSE IF Len(r.line) = 0 THEN Fail(errArrayNotTerminated, line)
    ELSE parseArrayNext(line, l, Append(a, r.obj), trimLeftSpace(r.line, FALSE).s)

\* the for loop of parseArray: l is the cursor at the loop head and a the
\* array so far
parseArrayLoop(line, l, a) ==
    IF HasPrefix(l, <<"]">>) THEN Ok(Array(a), forwardParseBuf(l, 1))
    ELSE parseArrayEntry(line, l, a, ParseObject(l))

\* lines 323-330: l is the cursor behind '[' and its whitespace
parseArrayBody(line, l) ==
    IF Len(l) = 0 THEN Fail(errArrayNotTerminated, line)
    ELSE parseArrayLoop(line, l, <<>>)

parseArray(line) ==
    IF Len(line) = 0 THEN Fail(errNoArray, line)
    ELSE IF ~HasPrefix(line, <<"[">>) THEN Fail(errArrayCorrupt, line)
    ELSE IF Len(line) = 1 THEN Fail(errArrayNotTerminated, line)
    ELSE parseArrayBody(line, trimLeftSpace(forwardParseBuf(line, 1), FALSE).s)

\* the insertion without the nil test
insertValueAlways(d, key, obj) == Insert(d, key, obj).d

\* lines 572-582 of processDictKeys: a nil value is not inserted
insertValue(d, key, obj) ==
    IF obj # Null THEN Insert(d, key, obj).d ELSE d

\* lines 589-595: l is the cursor behind the value and its whitespace
processDictNext(line, l, d, relaxed) ==
    IF Len(l) = 0 THEN Fail(errDictionaryNotTerminated, line)
    ELSE processDictKeysLoop(line, l, d, relaxed)

\* lines 567-590: r is the result of ParseObject(&l)
processDictValue(line, d, relaxed, key, r) ==
    IF r.hang THEN Hang(line)
    ELSE IF r.err # "" THEN Fail(r.err, line)
    ELSE IF Len(r.line) = 0 THEN Fail(errDictionaryNotTerminated, line)
    ELSE processDictNext(line, trimLeftSpace(r.line, FALSE).s,
                         insertValue(d, key, r.obj), relaxed)

\* lines 556-565: ins is the result of d.Insert(key, StringLiteral(""))
processDictMissingValue(line, l, relaxed, ins) ==
    IF ~ins.ok THEN Fail(errDictionaryDuplicateKey, line)
    ELSE processDictKeysLoop(line, l, ins.d, relaxed)

\* lines 543-570: t is the result of trimLeftSpace(l, relaxed) behind the key
processDictAfterKey(line, d, relaxed, key, t) ==
    IF Len(t.s) = 0 THEN Fail(errDictionaryNotTerminated, line)
    ELSE IF t.eol
         THEN processDictMissingValue(line, t.s, relaxed,
                                      Insert(d, key, StringLiteral(<<>>)))
    ELSE processDictValue(line, d, relaxed, key, ParseObject(t.s))

\* lines 535-544: key is the result of parseName(&l)
processDictKey(line, d, relaxed, key) ==
    IF key.err # "" THEN Fail(key.err, line)
    ELSE processDictAfterKey(line, d, relaxed, key.obj.v,
                             trimLeftSpace(key.line, relaxed))

\* the for loop of processDictKeys: l is the cursor at the loop head and d
\* the dict so far
processDictKeysLoop(line, l, d, relaxed) ==
    IF HasPrefix(l, <<">", ">">>) THEN Ok(Dict(d), l)
    ELSE processDictKey(line, d, relaxed, parseName(l))

processDictKeys(line, relaxed) == processDictKeysLoop(line, line, NewDict, relaxed)

\* parseDictEnd that leaves the cursor behind '<<' when the keys fail
parseDictEndAdvanced(line, r) ==
    IF r.hang THEN Hang(line)
    ELSE IF r.err # "" THEN Fail(r.err, r.line)
    ELSE Ok(r.obj, forwardParseBuf(r.line, 2))

\* lines 626-640: r is the result of processDictKeys(&l, relaxed)
parseDictEnd(line, r) ==
    IF r.hang THEN Hang(line)
    ELSE IF r.err # "" THEN Fail(r.err, line)
    ELSE Ok(r.obj, forwardParseBuf(r.line, 2))

\* lines 621-626: l is the cursor behind '<<' and its whitespace
parseDictBody(line, relaxed, l) ==
    IF Len(l) = 0 THEN Fail(errDictionaryNotTerminated, line)
    ELSE parseDictEnd(line, processDictKeys(l, relaxed))

parseDict(line, relaxed) ==
    IF Len(line) = 0 THEN Fail(errNoDictionary, line)
    ELSE IF Len(line) < 4 \/ ~HasPrefix(line, <<"<", "<">>)
         THEN Fail(errDictionaryCorrupt, line)
    ELSE parseDictBody(line, relaxed,
                       trimLeftSpace(forwardParseBuf(line, 2), FALSE).s)

\* lines 846-851: strict is the result of parseDict(l, false); the relaxed
\* attempt starts from *l as the strict attempt left it
parseDictRelaxed(strict) ==
    IF strict.hang \/ strict.err = "" THEN strict
    ELSE parseDict(strict.line, TRUE)

parseHexLiteralOrDict(l) ==
    IF Len(l) < 2 THEN Fail(errBufNotAvailable, l)
    ELSE IF At(l, 1) = "<" THEN parseDictRelaxed(parseDict(l, FALSE))
    ELSE parseHexLiteral(l)

\* lines 943-956: b is the result of parseBooleanOrNull(l)
parseKeywordOrNumeric(l, b) ==
    IF b.ok THEN Ok(b.val, forwardParseBuf(l, Len(b.s)))
    ELSE parseNumericOrIndRef(l)

\* lines 915-958: the switch on l[0]
ParseObjectSwitch(l) ==
    CASE l[1] = "[" -> parseArray(l)
      [] l[1] = "/" -> parseName(l)
      [] l[1] = "<" -> parseHexLiteralOrDict(l)
      [] l[1] = "(" -> parseStringLiteral(l)
      [] OTHER -> parseKeywordOrNumeric(l, parseBooleanOrNull(l))

\* ParseObjectReturn that hands the cursor of the failed parser to the caller
ParseObjectReturnAdvanced(line, r) ==
    IF r.hang THEN Hang(line)
    ELSE IF r.err # "" THEN Fail(r.err, r.line)
    ELSE Ok(r.obj, r.line)

\* lines 960-966: *line is assigned only on the last line; an error leaves
\* it as it was
ParseObjectReturn(line, r) ==
    IF r.hang THEN Hang(line)
    ELSE IF r.err # "" THEN Fail(r.err, line)
    ELSE Ok(r.obj, r.line)

\* lines 905-915: l is the cursor behind the leading whitespace
ParseObjectTrimmed(line, l) ==
    IF Len(l) = 0 THEN Fail(errBufNotAvailable, line)
    ELSE ParseObjectReturn(line, ParseObjectSwitch(l))

ParseObject(line) ==
    IF noBuf(line) THEN Fail(errBufNotAvailable, line)
    ELSE ParseObjectTrimmed(line, trimLeftSpace(line, FALSE).s)

(***************************************************************************)
(* Object header: ParseObjectAttributes                                    *)
(*                                                                         *)
(* The result is [objectNumber, generationNumber, err, line]; a *int is    *)
(* <<>> for nil and <<n>> for a pointer to n.                              *)
(***************************************************************************)
AttributesFail(e, line) ==
    [objectNumber |-> <<>>, generationNumber |-> <<>>, err |-> e, line |-> line]

\* lines 282-292: genNr is the result of the second strconv.Atoi
ParseObjectAttributesReturn(line, remainder, objNr, genNr) ==
    IF genNr.err # "" THEN AttributesFail(genNr.err, line)
    ELSE [objectNumber |-> <<objNr.v>>, generationNumber |-> <<genNr.v>>,
          err |-> "", line |-> remainder]

\* lines 277-282: i is the end of the generation number in l
ParseObjectAttributesGenEnd(line, remainder, objNr, l, i) ==
    IF i <= 0
    THEN AttributesFail("pdfcpu: ParseObjectAttributes: can't find end of generation number", line)
    ELSE ParseObjectAttributesReturn(line, remainder, objNr, Atoi(Upto(l, i)))

\* lines 264-277: objNr is the result of the first strconv.Atoi, l the text
\* behind the object number and its whitespace
ParseObjectAttributesGen(line, remainder, objNr, l) ==
    IF objNr.err # "" THEN AttributesFail(objNr.err, line)
    ELSE IF Len(l) = 0
    THEN AttributesFail("pdfcpu: ParseObjectAttributes: can't find generation number", line)
    ELSE ParseObjectAttributesGenEnd(line, remainder, objNr, l,
             positionToNextWhitespaceOrChar(l, {"%"}).i)

\* lines 259-272: i is the end of the object number in l
ParseObjectAttributesNrEnd(line, remainder, l, i) ==
    IF i <= 0
    THEN AttributesFail("pdfcpu: ParseObjectAttributes: can't find end of object number", line)
    ELSE ParseObjectAttributesGen(line, remainder, Atoi(Upto(l, i)),
                                  trimLeftSpace(From(l, i), FALSE).s)

\* lines 254-259: l is the text before "obj" without its leading whitespace
ParseObjectAttributesNr(line, remainder, l) ==
    IF Len(l) = 0
    THEN AttributesFail("pdfcpu: ParseObjectAttributes: can't find object number", line)
    ELSE ParseObjectAttributesNrEnd(line, remainder, l,
             positionToNextWhitespaceOrChar(l, {"%"}).i)

\* lines 244-254: i is strings.Index(l, "obj")
ParseObjectAttributesFound(line, i) ==
    IF i < 0
    THEN AttributesFail("pdfcpu: ParseObjectAttributes: can't find \"obj\"", line)
    ELSE ParseObjectAttributesNr(line, From(line, i + 3),
                                 trimLeftSpace(Upto(line, i), FALSE).s)

ParseObjectAttributes(line) ==
    IF Len(line) = 0
    THEN AttributesFail("pdfcpu: ParseObjectAttributes: buf not available", line)
    ELSE ParseObjectAttributesFound(line, IndexStr(line, <<"o", "b", "j">>))

(***************************************************************************)
(* Cross-reference stream descriptor                                       *)
(***************************************************************************)
\* StreamDict.Size(): a *int, <<>> for nil and <<n>> for a pointer to n
Size(sd) == sd.Size

\* StreamDict.Index(): the Index array, present = FALSE for a nil Array
IndexEntry(sd) == sd.Index

\* StreamDict.W(): the W array, present = FALSE for a nil Array
W(sd) == sd.W

\* a.(types.Integer) succeeds
IsInteger(o) == o.t = "Integer"

\* the inner loop running one object too far
RECURSIVE countLoopOffByOne(_, _, _, _)
countLoopOffByOne(startObj, count, j, objs) ==
    IF j <= count
    THEN countLoopOffByOne(startObj, count, j + 1, Append(objs, startObj + j))
    ELSE objs

\* for j := 0; j < count; j++ { objs = append(objs, startObj+j) }
RECURSIVE countLoop(_, _, _, _)
countLoop(startObj, count, j, objs) ==
    IF j < count THEN countLoop(startObj, count, j + 1, Append(objs, startObj + j))
    ELSE objs

\* for i := 0; i < len(indArr)/2; i++ { ... }
RECURSIVE indexLoop(_, _, _)
indexLoop(indArr, i, objs) ==
    IF i < Len(indArr) \div 2
    THEN LET startObj == At(indArr, i * 2)
             count == At(indArr, i * 2 + 1)
         IN  IF ~IsInteger(startObj) THEN [objs |-> <<>>, err |-> errXrefStreamCorruptIndex]
             ELSE IF ~IsInteger(count) THEN [objs |-> <<>>, err |-> errXrefStreamCorruptIndex]
             ELSE indexLoop(indArr, i + 1, countLoop(startObj.v, count.v, 0, objs))
    ELSE [objs |-> objs, err |-> ""]

\* for i := 0; i < *sd.Size(); i++ { objs = append(objs, i) }
RECURSIVE sizeLoop(_, _, _)
sizeLoop(size, i, objs) ==
    IF i < size THEN sizeLoop(size, i + 1, Append(objs, i)) ELSE objs

NoXRefStreamDict == [Size |-> 0, Objects |-> <<>>, W |-> <<>>]

createXRefStreamDict(sd, objs) ==
    LET a == W(sd)
        f(o) == ~IsInteger(o) \/ o.v < 0
    IN  IF ~a.present THEN [xsd |-> NoXRefStreamDict, err |-> errXrefStreamMissingW]
        ELSE IF Len(a.v) # 3
             THEN [xsd |-> NoXRefStreamDict, err |-> errXrefStreamCorruptW]
        ELSE IF f(a.v[1]) \/ f(a.v[2]) \/ f(a.v[3])
             THEN [xsd |-> NoXRefStreamDict, err |-> errXrefStreamCorruptW]
        ELSE [xsd |-> [Size |-> Size(sd)[1], Objects |-> objs,
                       W |-> <<a.v[1].v, a.v[2].v, a.v[3].v>>],
              err |-> ""]

ParseXRefStreamDict(sd) ==
    LET indArr == IndexEntry(sd)
        ix == indexLoop(indArr.v, 0, <<>>)
    IN  IF Size(sd) = <<>> THEN [xsd |-> NoXRefStreamDict, err |-> errSizeNotAvailable]
        ELSE IF indArr.present
             THEN IF Len(indArr.v) % 2 > 1
                  THEN [xsd |-> NoXRefStreamDict, err |-> errXrefStreamCorruptIndex]
                  ELSE IF ix.err # "" THEN [xsd |-> NoXRefStreamDict, err |-> ix.err]
                  ELSE createXRefStreamDict(sd, ix.objs)
        ELSE createXRefStreamDict(sd, sizeLoop(Size(sd)[1], 0, <<>>))

(***************************************************************************)
(* Inputs                                                                  *)
(***************************************************************************)
MaxChunks == 5
MaxDictChunks == 5
MaxHexLen == 5
MaxStrLen == 5
MaxIndexLen == 4
MaxSize == 2
MaxAttrChunks == 5
MaxTrimLen == 5
MaxCursorChunks == 5

RECURSIVE Concat(_)
Concat(ss) == IF Len(ss) = 0 THEN <<>> ELSE Head(ss) \o Concat(Tail(ss))

\* the buffers made of at most n chunks
Buffers(Chunks, n) == {Concat(f) : f \in UNION {[1..m -> Chunks] : m \in 0..n}}

\* a numeric token that does not fit a signed 64-bit int
Big == [k \in 1..20 |-> "9"]

NumChunks ==
    {<<"1">>, <<"0">>, Big, <<" ">>, <<"R">>, <<"[">>, <<"]">>, <<"%", "\n">>, <<"+">>}

DictChunks ==
    {<<"/", "K", " ">>, <<"/", "K", "\n">>, <<"/", "J", " ">>, <<"1">>, <<"0">>,
     <<"n", "u", "l", "l">>, <<" ">>, <<">", ">">>}

HexBytes == {<<"4">>, <<"a">>, <<"F">>, <<" ">>, <<"\n">>, <<">">>, <<"g">>}

StrBytes == {<<"(">>, <<")">>, <<"\\">>, <<"a">>}

IndexElems == {Integer(0), Integer(1), Integer(2), Name(<<"N">>)}

IndexArrays == UNION {[1..m -> IndexElems] : m \in 0..MaxIndexLen}

WArrays ==
    {<<Integer(1), Integer(2), Integer(1)>>, <<Integer(1), Integer(2)>>,
     <<Integer(1), Integer(0 - 1), Integer(1)>>, <<Integer(1), Name(<<"N">>), Integer(0)>>}

\* pieces of an object header
AttrChunks ==
    {<<"1">>, <<"1", " ">>, <<"0", " ">>, <<"-">>, <<"x">>, <<"o", "b", "j">>,
     <<"%", "\n">>}

\* whitespace with and without end of line, a comment start, an end of line
\* and a byte of a token
TrimBytes == {<<" ">>, <<"NUL">>, <<"\n">>, <<"%">>, <<"a">>}

\* openers of the composite objects, a name, a name with a corrupt '#'
\* sequence and a sign without digits
CursorChunks ==
    {<<"[">>, <<"<", "<">>, <<">", ">">>, <<"/", "K">>, <<"/", "#">>, <<" ">>,
     <<"+">>}

NoArray == [present |-> FALSE, v |-> <<>>]

NoStreamDict == [Size |-> <<>>, W |-> NoArray, Index |-> NoArray]

(***************************************************************************)
(* The caller: a cursor `line`, one call, its results                      *)
(***************************************************************************)
VARIABLES pc, input, line, obj, err, sd, xsd,
          objectNumber, generationNumber, relaxed, eol

vars == <<pc, input, line, obj, err, sd, xsd,
          objectNumber, generationNumber, relaxed, eol>>

\* the results of ParseObjectAttributes and of trimLeftSpace before the call
NoResults ==
    /\ objectNumber = <<>>
    /\ generationNumber = <<>>
    /\ eol = FALSE

InitBuffer(bufs) ==
    /\ pc = "ready"
    /\ input \in bufs
    /\ line = input
    /\ obj = Null
    /\ err = ""
    /\ sd = NoStreamDict
    /\ xsd = NoXRefStreamDict
    /\ relaxed = FALSE
    /\ NoResults

Init == InitBuffer(Buffers(NumChunks, MaxChunks))

InitDict == InitBuffer({<<"<", "<">> \o b : b \in Buffers(DictChunks, MaxDictChunks)})

InitHex == InitBuffer({<<"<">> \o b : b \in Buffers(HexBytes, MaxHexLen)})

InitStr == InitBuffer({<<"(">> \o b : b \in Buffers(StrBytes, MaxStrLen)})

InitXRef ==
    /\ pc = "ready"
    /\ input = <<>>
    /\ line = <<>>
    /\ obj = Null
    /\ err = ""
    /\ \E size \in {<<>>} \cup {<<n>> : n \in 0..MaxSize} :
       \E w \in {NoArray} \cup {[present |-> TRUE, v |-> a] : a \in WArrays} :
       \E ix \in {NoArray} \cup {[present |-> TRUE, v |-> a] : a \in IndexArrays} :
           sd = [Size |-> size, W |-> w, Index |-> ix]
    /\ xsd = NoXRefStreamDict
    /\ relaxed = FALSE
    /\ NoResults

InitCursor == InitBuffer(Buffers(CursorChunks, MaxCursorChunks))

InitAttr == InitBuffer(Buffers(AttrChunks, MaxAttrChunks))

\* the cursor and the mode handed to trimLeftSpace
InitTrim ==
    /\ pc = "ready"
    /\ input \in Buffers(TrimBytes, MaxTrimLen)
    /\ line = input
    /\ obj = Null
    /\ err = ""
    /\ sd = NoStreamDict
    /\ xsd = NoXRefStreamDict
    /\ relaxed \in BOOLEAN
    /\ NoResults

\* the caller's variables after a call that ended as r
Returned(r) ==
    /\ pc' = IF r.hang THEN "hang" ELSE "done"
    /\ line' = r.line
    /\ obj' = r.obj
    /\ err' = r.err

\* obj, err := ParseObject(&line)
CallParseObject ==
    /\ pc = "ready"
    /\ Returned(ParseObject(line))
    /\ UNCHANGED <<input, sd, xsd, objectNumber, generationNumber, relaxed, eol>>

\* the caller's variables after ParseXRefStreamDict returned r
ReturnedXRef(r) ==
    /\ pc' = "done"
    /\ xsd' = r.xsd
    /\ err' = r.err

\* xsd, err := ParseXRefStreamDict(sd)
CallParseXRefStreamDict ==
    /\ pc = "ready"
    /\ ReturnedXRef(ParseXRefStreamDict(sd))
    /\ UNCHANGED <<input, line, obj, sd, objectNumber, generationNumber, relaxed, eol>>

\* the caller's variables after ParseObjectAttributes returned r
ReturnedAttr(r) ==
    /\ pc' = "done"
    /\ line' = r.line
    /\ objectNumber' = r.objectNumber
    /\ generationNumber' = r.generationNumber
    /\ err' = r.err

\* objectNumber, generationNumber, err := ParseObjectAttributes(&line)
CallParseObjectAttributes ==
    /\ pc = "ready"
    /\ ReturnedAttr(ParseObjectAttributes(line))
    /\ UNCHANGED <<input, obj, sd, xsd, relaxed, eol>>

\* the caller's variables after trimLeftSpace returned t
ReturnedTrim(t) ==
    /\ pc' = "done"
    /\ line' = t.s
    /\ eol' = t.eol

\* line, eol = trimLeftSpace(line, relaxed)
CalltrimLeftSpace ==
    /\ pc = "ready"
    /\ ReturnedTrim(trimLeftSpace(line, relaxed))
    /\ UNCHANGED <<input, obj, err, sd, xsd, objectNumber, generationNumber, relaxed>>

Next == CallParseObject

NextXRef == CallParseXRefStreamDict

NextAttr == CallParseObjectAttributes

NextTrim == CalltrimLeftSpace

Spec == Init /\ [][Next]_vars

SpecDict == InitDict /\ [][Next]_vars

SpecHex == InitHex /\ [][Next]_vars

SpecStr == InitStr /\ [][Next]_vars

SpecXRef == InitXRef /\ [][NextXRef]_vars

SpecCursor == InitCursor /\ [][Next]_vars

SpecAttr == InitAttr /\ [][NextAttr]_vars

SpecTrim == InitTrim /\ [][NextTrim]_vars

(***************************************************************************)
(* Properties                                                              *)
(***************************************************************************)
IsSuffix(t, s) == Len(t) <= Len(s) /\ From(s, Len(s) - Len(t)) = t

TakeWhile(s, p(_)) == Upto(s, Len(s) - Len(TrimLeftFunc(s, p)))

DropWhile(s, p(_)) == TrimLeftFunc(s, p)

\* a byte that belongs to a numeric token
TokenByte(c) == ~whitespace(c) /\ c \notin {"/", "<", "(", "[", "]", ">", "%"}

\* a byte that belongs to the second token of a reference
Token2Byte(c) == ~whitespace(c) /\ c \notin {"/", "<", "(", "[", "]", ">"}

\* a run of whitespace only
SkipWhitespace(s) == DropWhile(s, whitespace)

\* a run of whitespace and of comments, each '%' up to the end of its line
RECURSIVE SkipSeparator(_)
SkipSeparator(s) ==
    IF Len(s) = 0 THEN s
    ELSE IF whitespace(s[1]) THEN SkipSeparator(Tail(s))
    ELSE IF s[1] = "%" /\ Len(s) > 1
         THEN SkipSeparator(DropWhile(s, LAMBDA c : c \notin {"\n", "\r"}))
    ELSE s

\* the input behind its leading whitespace and comments
Lead == SkipSeparator(input)

\* the dispatcher hands Lead to the numeric parser
IsNumericCase ==
    /\ Len(Lead) > 0
    /\ Lead[1] \notin {"[", "/", "<", "("}
    /\ ~parseBooleanOrNull(Lead).ok

\* the first token as the numeric parser reads it, and what follows it
FirstToken == startParseNumericOrIndRef(Lead).str

AfterFirst == DropWhile(Lead, TokenByte)

\* the bytes behind the first separator, the second token, the bytes behind
\* the second separator, for a separator skipped by skip
Second(skip(_)) == skip(AfterFirst)

SecondToken(skip(_)) == TakeWhile(Second(skip), Token2Byte)

AfterSecond(skip(_)) == DropWhile(Second(skip), Token2Byte)

Third(skip(_)) == skip(AfterSecond(skip))

\* token, whitespace, integer token, whitespace, 'R'
RefShapeWhitespace ==
    /\ Len(AfterFirst) > 0 /\ whitespace(AfterFirst[1])
    /\ Atoi(SecondToken(SkipWhitespace)).err = ""
    /\ Len(AfterSecond(SkipWhitespace)) > 0
    /\ whitespace(AfterSecond(SkipWhitespace)[1])
    /\ HasPrefix(Third(SkipWhitespace), <<"R">>)

\* token, separator, integer token, separator that starts with whitespace, 'R'
RefShapeSeparator ==
    /\ Len(AfterFirst) > 0
    /\ Second(SkipSeparator) # AfterFirst
    /\ Atoi(SecondToken(SkipSeparator)).err = ""
    /\ Len(AfterSecond(SkipSeparator)) > 0
    /\ whitespace(AfterSecond(SkipSeparator)[1])
    /\ HasPrefix(Third(SkipSeparator), <<"R">>)

\* the call returned and the first token of the input is an in-range integer
FirstIsInteger == pc = "done" /\ IsNumericCase /\ Atoi(FirstToken).err = ""

\* the result for an integer first token: a reference only for the shape, else
\* the integer with the cursor right behind the first token
IntegerOrRef(shape, skip(_)) ==
    /\ err = ""
    /\ obj.t = "IndirectRef" =>
          /\ shape
          /\ obj = NewIndirectRef(Atoi(FirstToken).v, Atoi(SecondToken(skip)).v)
    /\ obj.t # "IndirectRef" =>
          /\ obj = Integer(Atoi(FirstToken).v)
          /\ line = AfterFirst

\* C1 as stated: an integer first token becomes IndirectRef(i, g) only if it
\* is followed by whitespace, an integer token g, whitespace and 'R'; in every
\* other case the result is Integer(i) and the cursor is right behind the token.
C1_Original ==
    FirstIsInteger => IntegerOrRef(RefShapeWhitespace, SkipWhitespace)

\* C1 amended: an integer first token becomes IndirectRef(i, g) only if it is
\* followed by a separator (whitespace and %-comments), an integer token g, a
\* separator that starts with whitespace, and 'R'; in every other case the
\* result is Integer(i) and the cursor is right behind the first token.
C1_IntegerOrIndirectRef ==
    FirstIsInteger => IntegerOrRef(RefShapeSeparator, SkipSeparator)

\* a reference read across a comment
C1_Witness ==
    /\ FirstIsInteger
    /\ obj.t = "IndirectRef"
    /\ ~RefShapeWhitespace
    /\ RefShapeSeparator

C3_CursorMonotone ==
    (pc = "done" /\ err = "") =>
        /\ IsSuffix(line, input)
        /\ obj # Null => Len(line) < Len(input)

C3_Witness ==
    /\ pc = "done" /\ err = ""
    /\ obj.t = "Array" /\ Len(obj.v) > 0
    /\ Len(line) > 0 /\ Len(line) < Len(input)

\* the first token is out of integer range and the three-token shape follows
RangeRefShape ==
    /\ pc = "done"
    /\ IsNumericCase
    /\ Atoi(FirstToken).err = errRange
    /\ RefShapeWhitespace

\* C7: an out-of-range first token followed by whitespace, an integer token,
\* whitespace and 'R' yields Null and no error, the cursor behind the 'R'.
C7_RangeRefIsNull ==
    RangeRefShape =>
        /\ err = ""
        /\ obj = Null
        /\ line = Tail(Third(SkipWhitespace))

C7_Witness ==
    /\ RangeRefShape
    /\ obj = Null /\ err = ""
    /\ line = <<>> /\ Len(input) > 0

\* C4: a key that occurs at several key positions never makes the parse fail
\* with the duplicate-key error, in strict or in relaxed mode.
C4_NoDuplicateKeyError == err # errDictionaryDuplicateKey

\* a value of a parsed dictionary, at any depth, that is Null
RECURSIVE HasNullValue(_)
HasNullValue(o) ==
    CASE o.t = "Dict" ->
            \E k \in DOMAIN o.v : o.v[k] = Null \/ HasNullValue(o.v[k])
      [] o.t = "Array" -> \E k \in 1..Len(o.v) : HasNullValue(o.v[k])
      [] OTHER -> FALSE

\* C8: no key of a successfully parsed dictionary maps to Null; an entry
\* whose value is Null is left out and parsing goes on with the next key.
C8_NoNullValues ==
    (pc = "done" /\ err = "" /\ obj.t = "Dict") => ~HasNullValue(obj)

C8_Witness ==
    /\ pc = "done" /\ err = ""
    /\ HasPrefix(input, <<"<", "<", "/", "K", " ", "n", "u", "l", "l">>)
    /\ obj.t = "Dict"
    /\ DOMAIN obj.v = {<<"J">>}

\* the body of a hex literal: the bytes between '<' and the first '>'
HexTerminated == Index(Tail(input), ">") >= 0

HexBody == Upto(Tail(input), Index(Tail(input), ">"))

HexDigit(c) ==
    c \in {"0", "1", "2", "3", "4", "5", "6", "7", "8", "9",
           "a", "b", "c", "d", "e", "f", "A", "B", "C", "D", "E", "F"}

HexSpace(c) == c \in {" ", "\t", "\n", "\f", "\r"}

\* the digits of a body in their order, uppercased
RECURSIVE HexDigitsOf(_)
HexDigitsOf(b) ==
    IF Len(b) = 0 THEN <<>>
    ELSE IF HexDigit(b[1]) THEN <<ToUpperRune(b[1])>> \o HexDigitsOf(Tail(b))
    ELSE HexDigitsOf(Tail(b))

\* the digits, with one '0' behind them when their number is odd
HexPayload(b) ==
    IF Len(HexDigitsOf(b)) % 2 = 1 THEN Append(HexDigitsOf(b), "0")
    ELSE HexDigitsOf(b)

\* C5: the payload of a hex literal is the digits of its body in order,
\* uppercased, without the whitespace, with one '0' appended when their number
\* is odd; a body with any other byte is a corrupt hex literal.
C5_HexPayload ==
    (pc = "done" /\ HexTerminated) =>
        IF \A k \in 1..Len(HexBody) : HexDigit(HexBody[k]) \/ HexSpace(HexBody[k])
        THEN err = "" /\ obj = HexLiteral(HexPayload(HexBody))
        ELSE err = errHexLiteralCorrupt

\* index i of s is made depth-neutral by a backslash before it
RECURSIVE Escaped(_, _)
Escaped(s, i) == i > 0 /\ At(s, i - 1) = "\\" /\ ~Escaped(s, i - 1)

\* the parentheses of s[0..k] that count: opening minus closing
Depth(s, k) ==
    Cardinality({i \in 0..k : At(s, i) = "(" /\ ~Escaped(s, i)})
      - Cardinality({i \in 0..k : At(s, i) = ")" /\ ~Escaped(s, i)})

\* the depth is back at zero at index k
Closes(s, k) == At(s, k) = ")" /\ ~Escaped(s, k) /\ Depth(s, k) = 0

\* the first index at which the depth is back at zero
ClosingIndex(s) ==
    CHOOSE k \in 0..(Len(s) - 1) :
        Closes(s, k) /\ \A m \in 0..(k - 1) : ~Closes(s, m)

\* C6: for an input that starts with '(' the payload is the raw bytes between
\* index 0 and the first index k where the depth, with a backslash making the
\* next byte depth-neutral, is back at zero, and the cursor is the suffix
\* behind k; without such an index, or for an input shorter than 2 bytes, the
\* parse fails with the corrupt-string-literal error.
C6_StringLiteral ==
    (pc = "done" /\ HasPrefix(input, <<"(">>)) =>
        IF Len(input) >= 2 /\ \E k \in 0..(Len(input) - 1) : Closes(input, k)
        THEN /\ err = ""
             /\ obj = StringLiteral(SubSeq(input, 2, ClosingIndex(input)))
             /\ line = From(input, ClosingIndex(input) + 1)
        ELSE err = errStringLiteralCorrupt

\* an escaped parenthesis inside the literal and bytes behind it
C6_Witness ==
    /\ pc = "done" /\ err = ""
    /\ obj.t = "StringLiteral"
    /\ \E k \in 1..Len(obj.v) : obj.v[k] = "\\"
    /\ \E k \in 1..Len(obj.v) : obj.v[k] \in {"(", ")"}
    /\ Len(line) > 0

\* Size is there and W is an array of three non-negative integers
SizeAndValidW ==
    /\ Size(sd) # <<>>
    /\ W(sd).present
    /\ Len(W(sd).v) = 3
    /\ \A k \in 1..3 : IsInteger(W(sd).v[k]) /\ W(sd).v[k].v >= 0

\* C9: a stream dictionary with an Index array of odd length is rejected with
\* the corrupt-Index error and no descriptor is returned, also when nothing
\* else is wrong with the dictionary.
C9_OddIndexRejected ==
    (pc = "done" /\ SizeAndValidW /\ IndexEntry(sd).present
        /\ Len(IndexEntry(sd).v) % 2 = 1)
    => err = errXrefStreamCorruptIndex /\ xsd = NoXRefStreamDict

\* start, start+1, ..., start+count-1
RangeSeq(start, count) == [j \in 1..count |-> start + j - 1]

\* the ranges of the (start, count) pairs of a, in pair order
RECURSIVE PairRanges(_)
PairRanges(a) ==
    IF Len(a) < 2 THEN <<>>
    ELSE RangeSeq(a[1].v, a[2].v) \o PairRanges(SubSeq(a, 3, Len(a)))

\* Index is an array of integer pairs
IndexIsPairs ==
    /\ IndexEntry(sd).present
    /\ Len(IndexEntry(sd).v) % 2 = 0
    /\ \A k \in 1..Len(IndexEntry(sd).v) : IsInteger(IndexEntry(sd).v[k])

\* C10: with Size and a valid W, the object list is 0 .. Size-1 when Index is
\* absent, and the concatenation of the ranges of the (start, count) pairs, in
\* pair order, when Index is an array of integer pairs.
C10_ObjectList ==
    (pc = "done" /\ SizeAndValidW) =>
        /\ ~IndexEntry(sd).present =>
              err = "" /\ xsd.Objects = RangeSeq(0, Size(sd)[1])
        /\ IndexIsPairs =>
              err = "" /\ xsd.Objects = PairRanges(IndexEntry(sd).v)

\* two pairs, the second one below the first
C10_Witness ==
    /\ pc = "done" /\ err = ""
    /\ IndexEntry(sd).present
    /\ IndexEntry(sd).v = <<Integer(2), Integer(2), Integer(0), Integer(1)>>
    /\ xsd.Objects = <<2, 3, 0>>

(***************************************************************************)
(* Object header                                                           *)
(***************************************************************************)
\* the first occurrence of "obj", the text before it and the text behind it
ObjIndex == IndexStr(input, <<"o", "b", "j">>)

BeforeObj == Upto(input, ObjIndex)

AfterObj == From(input, ObjIndex + 3)

NoSpace(c) == ~whitespace(c)

\* the two tokens of the text before "obj" and what stands behind each
NrToken == TakeWhile(SkipWhitespace(BeforeObj), NoSpace)

AfterNr == DropWhile(SkipWhitespace(BeforeObj), NoSpace)

GenToken == TakeWhile(SkipWhitespace(AfterNr), NoSpace)

AfterGen == DropWhile(SkipWhitespace(AfterNr), NoSpace)

\* tok is the decimal text of an integer that is not negative
NonNegative(tok) == Atoi(tok).err = "" /\ Atoi(tok).v >= 0

\* "obj" occurs and the text before it is two non-negative integers separated
\* by whitespace, with nothing but whitespace around them
TwoIntegersBeforeObj ==
    /\ ObjIndex >= 0
    /\ NonNegative(NrToken)
    /\ NonNegative(GenToken)
    /\ SkipWhitespace(AfterGen) = <<>>

\* C11: ParseObjectAttributes succeeds exactly when the text before the first
\* "obj" consists of two whitespace-separated non-negative integers; on
\* success it returns them as object number and generation number and sets
\* the cursor to the text behind that "obj"; in every other case it fails and
\* returns no numbers.
C11_ObjectAttributes ==
    pc = "done" =>
        IF TwoIntegersBeforeObj
        THEN /\ err = ""
             /\ objectNumber = <<Atoi(NrToken).v>>
             /\ generationNumber = <<Atoi(GenToken).v>>
             /\ line = AfterObj
        ELSE /\ err # ""
             /\ objectNumber = <<>>
             /\ generationNumber = <<>>

(***************************************************************************)
(* Range error of the first numeric token                                  *)
(***************************************************************************)
\* the call returned, the first token is out of integer range and the input
\* is not token, separator, integer token, separator, 'R'
RangeNoRefShape ==
    /\ pc = "done"
    /\ IsNumericCase
    /\ Atoi(FirstToken).err = errRange
    /\ ~RefShapeWhitespace
    /\ ~RefShapeSeparator

\* C12: a first numeric token that is out of integer range, in an input that
\* is not the three-token shape (integer, integer, R), makes ParseObject
\* return the range error and no object, wherever the lookahead stops.
C12_RangeErrorReturned ==
    RangeNoRefShape => (err = errRange /\ obj = Null)

(***************************************************************************)
(* The two attempts of the dictionary parser                               *)
(***************************************************************************)
\* the dispatcher was called on a cursor that starts with '<<' and returned
DictCase == pc = "done" /\ HasPrefix(input, <<"<", "<">>)

\* the two attempts on the cursor the dispatcher was called with
StrictAttempt == parseDict(input, FALSE)

RelaxedAttempt == parseDict(input, TRUE)

\* the dispatcher returned what the attempt r returned
ResultOf(r) == obj = r.obj /\ err = r.err /\ line = r.line

\* C13: on '<<' the strict attempt runs first and its result is returned when
\* it succeeds; when it fails it leaves the cursor unchanged, and the result
\* is that of the relaxed attempt on the same cursor: its dictionary, or its
\* error with no dictionary and the cursor unchanged.
C13_TwoAttempts ==
    DictCase =>
        /\ StrictAttempt.err = "" => ResultOf(StrictAttempt)
        /\ StrictAttempt.err # "" =>
              /\ StrictAttempt.line = input
              /\ RelaxedAttempt.err = "" => ResultOf(RelaxedAttempt)
              /\ RelaxedAttempt.err # "" =>
                    /\ err = RelaxedAttempt.err
                    /\ obj = Null
                    /\ line = input

\* the strict attempt fails behind the second key and the relaxed one succeeds
C13_Witness ==
    /\ DictCase
    /\ StrictAttempt.err # ""
    /\ err = "" /\ obj.t = "Dict"
    /\ Cardinality(DOMAIN obj.v) = 2
    /\ line = <<>>

(***************************************************************************)
(* The relaxed missing-value rule                                          *)
(***************************************************************************)
\* s starts with a token that begins a value: a string, a number, an array,
\* a hex literal or a dictionary, a keyword
BeginsValue(s) ==
    /\ Len(s) > 0
    /\ \/ s[1] \in {"(", "[", "<", "+", "-", "."}
       \/ IsDigit(s[1])
       \/ parseBooleanOrNull(s).ok

\* behind every end of line of the input, the next token begins a value
EveryEolBeforeValue ==
    \A k \in 1..Len(input) :
        input[k] \in {"\n", "\r"} => BeginsValue(SkipSeparator(From(input, k)))

\* the relaxed attempt ran on an input in which no key lacks its value
RelaxedWithAllValues ==
    /\ DictCase
    /\ StrictAttempt.err # ""
    /\ EveryEolBeforeValue

\* C14: the relaxed mode gives a key the empty StringLiteral only when an end
\* of line was crossed behind the key and the next token does not begin a
\* value; a value that follows an end of line is parsed by the dispatcher and
\* stored under the key.  So when every end of line of the input is followed
\* by a token that begins a value, no key gets the empty StringLiteral, the
\* relaxed attempt reads the input as the strict attempt did and ends with
\* the same error.
C14_RelaxedMissingValue ==
    RelaxedWithAllValues => (err = StrictAttempt.err /\ obj = Null)

(***************************************************************************)
(* The whitespace and comment skipper                                      *)
(***************************************************************************)
\* C15: in both modes trimLeftSpace returns a suffix of its input that is
\* empty or starts with a byte that is neither whitespace nor '%', also for
\* inputs that are only comments or end in a lone '%'; on empty input it
\* returns the empty cursor and eol = false.
C15_SkipperResult ==
    pc = "done" =>
        /\ IsSuffix(line, input)
        /\ line = <<>> \/ (~whitespace(line[1]) /\ line[1] # "%")
        /\ input = <<>> => (line = <<>> /\ ~eol)

(***************************************************************************)
(* The cursor of a failed call                                             *)
(***************************************************************************)
\* C16: when ParseObject returns an error, the caller's cursor is what it was
\* before the call, wherever the failure happened.
C16_CursorKeptOnError ==
    (pc = "done" /\ err # "") => line = input

\* a name with a corrupt '#' sequence, as an element of an array that is the
\* value of a dictionary key
C16_Witness ==
    /\ pc = "done"
    /\ err = errNameObjectCorrupt
    /\ line = input
    /\ input = <<"<", "<", "/", "K", "[", "/", "#">>

====
